---- MODULE Spec2Model ----
(***************************************************************************)
(* puppetdb_stencil.py: rendering of PuppetDB resources through templates. *)
(*                                                                         *)
(* A Python string is modelled as the sequence of its characters, so that  *)
(* lower(), upper(), split(), join(), replace(), slicing and the substring *)
(* test `in` are computed as the interpreter computes them.  A parameter   *)
(* value is a tagged variant: [t |-> "str", v |-> <string>] or             *)
(* [t |-> "list", v |-> <sequence of strings>].  Dictionaries are modelled *)
(* in insertion order (sequences of key/value records).                    *)
(***************************************************************************)
EXTENDS Integers, Sequences, FiniteSets

(* ------------------------------------------------------------------ *)
(* Python string primitives                                            *)
(* ------------------------------------------------------------------ *)

ascii_uppercase ==
  <<"A","B","C","D","E","F","G","H","I","J","K","L","M",
    "N","O","P","Q","R","S","T","U","V","W","X","Y","Z">>

ascii_lowercase ==
  <<"a","b","c","d","e","f","g","h","i","j","k","l","m",
    "n","o","p","q","r","s","t","u","v","w","x","y","z">>

\* position of character c in alphabet a, 0 when absent
alpha_index(c, a) ==
  IF \E i \in DOMAIN a : a[i] = c THEN CHOOSE i \in DOMAIN a : a[i] = c ELSE 0

\* str.lower()
str_lower(s) ==
  [i \in 1..Len(s) |->
     IF alpha_index(s[i], ascii_uppercase) > 0
       THEN ascii_lowercase[alpha_index(s[i], ascii_uppercase)]
       ELSE s[i]]

\* str.upper()
str_upper(s) ==
  [i \in 1..Len(s) |->
     IF alpha_index(s[i], ascii_lowercase) > 0
       THEN ascii_uppercase[alpha_index(s[i], ascii_lowercase)]
       ELSE s[i]]

\* sub in s   (substring test between two strings)
str_contains(s, sub) ==
  \E i \in 0..(Len(s) - Len(sub)) : SubSeq(s, i + 1, i + Len(sub)) = sub

\* s.split(sep) for a one-character separator
RECURSIVE str_split(_, _)
str_split(s, sep) ==
  IF \E i \in 1..Len(s) : s[i] = sep
    THEN LET i == CHOOSE k \in 1..Len(s) :
                    s[k] = sep /\ \A j \in 1..(k - 1) : s[j] # sep
         IN  <<SubSeq(s, 1, i - 1)>> \o str_split(SubSeq(s, i + 1, Len(s)), sep)
    ELSE <<s>>

\* sep.join(parts)
RECURSIVE str_join(_, _)
str_join(sep, parts) ==
  IF Len(parts) = 0 THEN <<>>
  ELSE IF Len(parts) = 1 THEN parts[1]
  ELSE parts[1] \o sep \o str_join(sep, Tail(parts))

\* s.replace(old, new) for one-character old and new
str_replace(s, old, new) ==
  [i \in 1..Len(s) |-> IF s[i] = old THEN new ELSE s[i]]

\* s[n:]
str_from(s, n) == SubSeq(s, n + 1, Len(s))

\* x in (a tuple of strings)
tuple_contains(t, x) == \E i \in 1..Len(t) : t[i] = x

(* ------------------------------------------------------------------ *)
(* Module constants and string literals of puppetdb_stencil.py         *)
(* ------------------------------------------------------------------ *)

s_only_cross_site == <<"o","n","l","y","-","c","r","o","s","s","-","s","i","t","e">>

s_no_cross_site == <<"n","o","-","c","r","o","s","s","-","s","i","t","e">>

s_false == <<"f","a","l","s","e">>

s_true == <<"t","r","u","e">>

s_parent_colon == <<"p","a","r","e","n","t",":">>

s_service_description == <<"s","e","r","v","i","c","e","_","d","e","s","c","r","i","p","t","i","o","n">>

s_host_name == <<"h","o","s","t","_","n","a","m","e">>

s_servicedependency == <<"s","e","r","v","i","c","e","d","e","p","e","n","d","e","n","c","y">>

s_jinja2 == <<".","j","i","n","j","a","2">>

s_None == <<"N","o","n","e">>

METAPARAMS ==
  <<<<"r","e","q","u","i","r","e">>,
    <<"b","e","f","o","r","e">>,
    <<"s","u","b","s","c","r","i","b","e">>,
    <<"n","o","t","i","f","y">>,
    <<"a","u","d","i","t">>,
    <<"l","o","g","l","e","v","e","l">>,
    <<"n","o","o","p">>,
    <<"s","c","h","e","d","u","l","e">>,
    <<"s","t","a","g","e">>,
    <<"a","l","i","a","s">>,
    <<"t","a","g">>>>

ALLOWED_METAPARAMS == <<"a","l","i","a","s">>

NAMED_OBJECTS ==
  <<<<"h","o","s","t">>,
    <<"h","o","s","t","g","r","o","u","p">>,
    <<"s","e","r","v","i","c","e","g","r","o","u","p">>,
    <<"s","e","r","v","i","c","e","d","e","p","e","n","d","e","n","c","y">>,
    <<"c","o","n","t","a","c","t">>,
    <<"c","o","n","t","a","c","t","g","r","o","u","p">>,
    <<"t","i","m","e","p","e","r","i","o","d">>,
    <<"c","o","m","m","a","n","d">>>>


(* ------------------------------------------------------------------ *)
(* Values, records                                                     *)
(* ------------------------------------------------------------------ *)

\* a scalar parameter value and a list parameter value (isinstance(value, list))
Scalar(s) == [t |-> "str", s |-> s]

List(l) == [t |-> "list", l |-> l]

\* one item of resource.parameters / one single-key mapping {key: value}
Item(k, v) == [key |-> k, value |-> v]

\* mapping[key] is defined
has_key(items, k) == \E i \in 1..Len(items) : items[i].key = k

\* mapping[key]
get_item(items, k) == items[CHOOSE i \in 1..Len(items) : items[i].key = k].value

\* tag in resource.tags
has_tag(res, tag) == \E i \in 1..Len(res.tags) : res.tags[i] = tag

(* ------------------------------------------------------------------ *)
(* is_resource_visible                                                 *)
(* ------------------------------------------------------------------ *)

\* variant: any --localsite other than "false" counts as the local site
is_resource_visible_any_local(res, ls) ==
  res.exported /\
    (   (~has_tag(res, s_only_cross_site) /\ ~has_tag(res, s_no_cross_site))
     \/ (has_tag(res, s_only_cross_site) /\ ~has_tag(res, s_no_cross_site) /\ ls = s_false)
     \/ (~has_tag(res, s_only_cross_site) /\ has_tag(res, s_no_cross_site) /\ ls # s_false))

is_resource_visible(res, ls) ==
  res.exported /\
    (   (~has_tag(res, s_only_cross_site) /\ ~has_tag(res, s_no_cross_site))
     \/ (has_tag(res, s_only_cross_site) /\ ~has_tag(res, s_no_cross_site) /\ ls = s_false)
     \/ (~has_tag(res, s_only_cross_site) /\ has_tag(res, s_no_cross_site) /\ ls = s_true))

(* ------------------------------------------------------------------ *)
(* render_resources: parameter shaping of one visible resource         *)
(* ------------------------------------------------------------------ *)

\* variant: the allow-list is not consulted
joins_value_no_allow_list(key, value) ==
  ~tuple_contains(METAPARAMS, key) /\ value.t = "list"

\* the test that selects the join branch (key in ALLOWED_METAPARAMS is a
\* substring test: ALLOWED_METAPARAMS is the string 'alias', not a tuple)
joins_value(key, value) ==
  (~tuple_contains(METAPARAMS, key) \/ str_contains(ALLOWED_METAPARAMS, key))
    /\ value.t = "list"

\* the mapping appended to dto['parameters'] for one declared parameter
declared_entry(key, value) ==
  IF joins_value(key, value)
    THEN Item(key, Scalar(str_join(<<",">>, value.l)))
    ELSE Item(key, value)

\* the name appended to envs_to_ignore for one declared parameter
ignored_env(obj, key) == str_upper(obj \o <<"_">> \o key)

\* loop over resource.parameters.items(): the entries appended to dto['parameters']
declared_parameters(items) ==
  [i \in 1..Len(items) |-> declared_entry(items[i].key, items[i].value)]

\* loop over resource.parameters.items(): envs_to_ignore
envs_to_ignore(obj, items) ==
  [i \in 1..Len(items) |-> ignored_env(obj, items[i].key)]

\* the test of the environment loop for one variable name
env_applies(obj, ignore, name) ==
  str_lower(str_split(name, "_")[1]) = obj /\ ~tuple_contains(ignore, name)

\* the mapping appended for one environment variable
env_entry(name, value) ==
  Item(str_lower(str_join(<<"_">>, Tail(str_split(name, "_")))),
       Scalar(str_lower(value)))

\* loop over os.environ: the entries appended to dto['parameters']
RECURSIVE environment_parameters(_, _, _)
environment_parameters(obj, ignore, env) ==
  IF env = <<>> THEN <<>>
  ELSE (IF env_applies(obj, ignore, env[1].name)
          THEN <<env_entry(env[1].name, env[1].value)>>
          ELSE <<>>)
       \o environment_parameters(obj, ignore, Tail(env))

\* the dto of one visible resource
resource_dto(obj, named, res, env) ==
  [object_name  |-> obj,
   named_object |-> named,
   name         |-> res.name,
   parameters   |-> declared_parameters(res.parameters)
                      \o environment_parameters(
                           obj, envs_to_ignore(obj, res.parameters), env)]

\* template.render(dto=dto) + '\n' : the rendered text of one dto under a
\* template (the template engine is an external pure function)
render(tpl, dto) == [template |-> tpl, dto |-> dto]

(* ------------------------------------------------------------------ *)
(* render_resources: collection of child service dependencies          *)
(* ------------------------------------------------------------------ *)

\* service_dependencies is a dict kept in insertion order:
\* a sequence of [key, children]
dep_has(deps, k) == \E i \in 1..Len(deps) : deps[i].key = k

dep_append(deps, k, res) ==
  IF dep_has(deps, k)
    THEN [i \in 1..Len(deps) |->
            IF deps[i].key = k
              THEN [key |-> k, children |-> Append(deps[i].children, res)]
              ELSE deps[i]]
    ELSE Append(deps, [key |-> k, children |-> <<res>>])

\* the body of "for tag in resource.tags" for one tag
collect_tag(deps, res, tag) ==
  IF str_contains(tag, s_parent_colon) /\ Len(str_split(tag, ":")) = 2
    THEN dep_append(deps, str_split(tag, ":")[2], res)
    ELSE deps

RECURSIVE collect_tags(_, _, _)
collect_tags(deps, res, tags) ==
  IF tags = <<>> THEN deps
  ELSE collect_tags(collect_tag(deps, res, tags[1]), res, Tail(tags))

(* ------------------------------------------------------------------ *)
(* render_resources: rendering of the service dependencies             *)
(* ------------------------------------------------------------------ *)

\* the dictionary literal of the servicedependency dto can be built
\* (every subscript finds its key; otherwise KeyError)
dependency_keys_present(parent, child) ==
  /\ has_key(parent.parameters, s_host_name)
  /\ has_key(parent.parameters, s_service_description)
  /\ has_key(child.parameters, s_host_name)
  /\ has_key(child.parameters, s_service_description)

dependency_dto(parent, child) ==
  [object_name |-> s_servicedependency,
   parameters  |->
     <<[host_name                     |-> get_item(parent.parameters, s_host_name),
        service_description           |-> get_item(parent.parameters, s_service_description),
        dependent_host_name           |-> get_item(child.parameters, s_host_name),
        dependent_service_description |-> get_item(child.parameters, s_service_description)]>>]

\* "for child in service_dependencies[item]": the fragments appended before
\* the loop ends or a subscript raises KeyError
RECURSIVE render_children(_, _, _)
render_children(tpl, parent, children) ==
  IF children = <<>> THEN [raised |-> FALSE, out |-> <<>>]
  ELSE IF ~dependency_keys_present(parent, children[1])
    THEN [raised |-> TRUE, out |-> <<>>]
  ELSE LET rest == render_children(tpl, parent, Tail(children))
       IN  [raised |-> rest.raised,
            out    |-> <<render(tpl, dependency_dto(parent, children[1]))>> \o rest.out]

\* variant: the gate tests the parent candidate
parent_gate_of_candidate(last, parent, ls) == is_resource_visible(parent, ls)

\* the visibility test guarding the lookup of a parent (it is given the
\* selector loop's variable `resource`, and the candidate `parent`)
parent_gate(last, parent, ls) == is_resource_visible(last, ls)

\* the body of "for parent in resources" for one parent and one map entry
link_parent(tpl, last, ls, entry, parent) ==
  LET psd == str_replace(entry.key, "_", " ") IN
  IF ~parent_gate(last, parent, ls) THEN [raised |-> FALSE, out |-> <<>>]
  ELSE IF ~has_key(parent.parameters, s_service_description)
    THEN [raised |-> FALSE, out |-> <<>>]
  ELSE LET value == get_item(parent.parameters, s_service_description) IN
       \* value.lower() on a list raises AttributeError
       IF value.t = "list" THEN [raised |-> TRUE, out |-> <<>>]
       ELSE IF str_contains(str_lower(value.s), psd)
         THEN render_children(tpl, parent, entry.children)
         ELSE [raised |-> FALSE, out |-> <<>>]

(* ------------------------------------------------------------------ *)
(* Inputs of one invocation                                            *)
(* ------------------------------------------------------------------ *)

\* most resource records of one fetched batch (dependency scenarios)
MaxResources == 3

\* most resource types on one command line
MaxTypes == 2

\* most declared parameters of one resource (shaping scenarios)
MaxParams == 2

\* most variables of the process environment (shaping scenarios)
MaxEnv == 2

\* resource type names given on the command line
t_Nagios_host ==
  <<"N","a","g","i","o","s","_","h","o","s","t">>

t_Nagios_Host ==
  <<"N","a","g","i","o","s","_","H","o","s","t">>

t_Nagios_service ==
  <<"N","a","g","i","o","s","_","s","e","r","v","i","c","e">>

ResourceTypes ==
  {t_Nagios_host, t_Nagios_Host, t_Nagios_service}

\* a template name given with --templates
t_generic ==
  <<"g","e","n","e","r","i","c",".","j","i","n","j","a","2">>

\* values of --localsite (any string)
LocalsiteValues ==
  {s_true, s_false, <<"T","r","u","e">>, <<>>}

\* declared parameters of the resources of the shaping scenarios
ParameterUniverse ==
  {Item(<<"a","l","i","a","s">>, Scalar(<<"s","r","v","1">>)),
   Item(<<"a","l","i","a","s">>, List(<<<<"a">>, <<"b">>>>)),
   Item(<<"m","e","m","b","e","r","s">>, List(<<<<"x">>, <<"y">>>>)),
   Item(<<"r","e","q","u","i","r","e">>, List(<<<<"a">>, <<"b">>>>)),
   Item(<<"l","o","c","a","t","i","o","n">>, Scalar(<<"r","a","c","k","7">>))}

\* process environment variables
EnvironmentUniverse ==
  {[name |-> <<"H","O","S","T","_","A","L","I","A","S">>, value |-> <<"o","t","h","e","r">>],
   [name |-> <<"h","o","s","t","_","a","l","i","a","s">>, value |-> <<"o","t","h","e","r">>],
   [name |-> <<"H","O","S","T","_","L","O","C","A","T","I","O","N">>, value |-> <<"R","A","C","K","7">>],
   [name |-> <<"H","O","S","T","_","C","H","E","C","K","_","C","O","M","M","A","N","D">>, value |-> <<"P","i","n","g">>],
   [name |-> <<"P","A","T","H">>, value |-> <<"/","b","i","n">>]}

\* tag lists of the resources of the visibility scenarios
TagLists ==
  {<<>>,
   <<<<"o","n","l","y","-","c","r","o","s","s","-","s","i","t","e">>>>,
   <<<<"n","o","-","c","r","o","s","s","-","s","i","t","e">>>>,
   <<<<"o","n","l","y","-","c","r","o","s","s","-","s","i","t","e">>, <<"n","o","-","c","r","o","s","s","-","s","i","t","e">>>>,
   <<<<"w","e","b">>, <<"n","o","-","c","r","o","s","s","-","s","i","t","e">>>>,
   <<<<"g","r","a","n","d","p","a","r","e","n","t",":","x">>>>,
   <<<<"p","a","r","e","n","t",":">>>>,
   <<<<"p","a","r","e","n","t",":","a",":","b">>>>,
   <<<<"p","a","r","e","n","t",":","d","b","_","u","p">>, <<"p","a","r","e","n","t",":","x">>>>}

\* a child of the parent service 'db up'
LChild ==
  [name |-> <<"w","e","b","1","_","h","t","t","p">>,
   exported |-> TRUE,
   tags |-> <<<<"p","a","r","e","n","t",":","d","b","_","u","p">>>>,
   parameters |->
      <<Item(<<"h","o","s","t","_","n","a","m","e">>, Scalar(<<"w","e","b","1">>)),
        Item(<<"s","e","r","v","i","c","e","_","d","e","s","c","r","i","p","t","i","o","n">>, Scalar(<<"h","t","t","p">>))>>]

\* a child whose tag spells the parent service in upper case
LChildUpper ==
  [name |-> <<"w","e","b","2","_","s","s","h">>,
   exported |-> TRUE,
   tags |-> <<<<"p","a","r","e","n","t",":","D","B","_","u","p">>>>,
   parameters |->
      <<Item(<<"h","o","s","t","_","n","a","m","e">>, Scalar(<<"w","e","b","2">>)),
        Item(<<"s","e","r","v","i","c","e","_","d","e","s","c","r","i","p","t","i","o","n">>, Scalar(<<"s","s","h">>))>>]

\* a visible parent
LParent ==
  [name |-> <<"d","b","1","_","u","p">>,
   exported |-> TRUE,
   tags |-> <<>>,
   parameters |->
      <<Item(<<"h","o","s","t","_","n","a","m","e">>, Scalar(<<"d","b","1">>)),
        Item(<<"s","e","r","v","i","c","e","_","d","e","s","c","r","i","p","t","i","o","n">>, Scalar(<<"D","B"," ","U","p">>))>>]

\* a parent that is not exported
LParentHidden ==
  [name |-> <<"d","b","2","_","u","p">>,
   exported |-> FALSE,
   tags |-> <<>>,
   parameters |->
      <<Item(<<"h","o","s","t","_","n","a","m","e">>, Scalar(<<"d","b","2">>)),
        Item(<<"s","e","r","v","i","c","e","_","d","e","s","c","r","i","p","t","i","o","n">>, Scalar(<<"d","b"," ","u","p"," ","2">>))>>]

\* a parent visible only across sites
LParentRemote ==
  [name |-> <<"d","b","4","_","u","p">>,
   exported |-> TRUE,
   tags |-> <<<<"o","n","l","y","-","c","r","o","s","s","-","s","i","t","e">>>>,
   parameters |->
      <<Item(<<"h","o","s","t","_","n","a","m","e">>, Scalar(<<"d","b","4">>)),
        Item(<<"s","e","r","v","i","c","e","_","d","e","s","c","r","i","p","t","i","o","n">>, Scalar(<<"d","b"," ","u","p"," ","4">>))>>]

\* a parent without host_name
LParentNoHost ==
  [name |-> <<"d","b","3","_","u","p">>,
   exported |-> TRUE,
   tags |-> <<>>,
   parameters |->
      <<Item(<<"s","e","r","v","i","c","e","_","d","e","s","c","r","i","p","t","i","o","n">>, Scalar(<<"d","b"," ","u","p">>))>>]

\* a parent whose service_description is a list
LParentList ==
  [name |-> <<"d","b","5","_","u","p">>,
   exported |-> TRUE,
   tags |-> <<>>,
   parameters |->
      <<Item(<<"h","o","s","t","_","n","a","m","e">>, Scalar(<<"d","b","5">>)),
        Item(<<"s","e","r","v","i","c","e","_","d","e","s","c","r","i","p","t","i","o","n">>, List(<<<<"d","b"," ","u","p">>>>))>>]

\* a child without service_description
LChildBare ==
  [name |-> <<"w","e","b","3">>,
   exported |-> TRUE,
   tags |-> <<<<"p","a","r","e","n","t",":","d","b","_","u","p">>>>,
   parameters |->
      <<Item(<<"h","o","s","t","_","n","a","m","e">>, Scalar(<<"w","e","b","3">>))>>]

\* resource records of the dependency scenarios
LinkUniverse ==
  {LChild, LChildUpper, LParent, LParentHidden, LParentRemote, LParentNoHost, LParentList, LChildBare}


SeqsUpTo(S, n) == UNION {[1..k -> S] : k \in 0..n}

\* a dict has one item per key; os.environ has one value per name
distinct_keys(items) ==
  \A i, j \in 1..Len(items) : i # j => items[i].key # items[j].key

distinct_names(env) ==
  \A i, j \in 1..Len(env) : i # j => env[i].name # env[j].name

\* database.resources(t) of a database holding `batch` under type t only
database_of(t, batch) == [u \in ResourceTypes |-> IF u = t THEN batch ELSE <<>>]

\* the template files found on the search path: `<type>.jinja2` of every type
default_files == {t \o s_jinja2 : t \in ResourceTypes}

\* a plain exported resource with the given tags and parameters
plain_resource(exported, tags, params) ==
  [name |-> <<"s","r","v","1">>, exported |-> exported, tags |-> tags,
   parameters |-> params]

\* visibility: one resource, any export flag, tag list and --localsite
VisibilityScenarios ==
  {[resource_types  |-> <<t_Nagios_host>>,
    extra_templates |-> <<>>,
    localsite       |-> ls,
    files           |-> default_files,
    environ         |-> <<>>,
    database        |-> database_of(t_Nagios_host,
                          <<plain_resource(e, tags, <<>>)>>)] :
     ls \in LocalsiteValues, e \in BOOLEAN, tags \in TagLists}

\* shaping: one visible resource, its declared parameters, the environment
ShapingScenarios ==
  {[resource_types  |-> <<t>>,
    extra_templates |-> <<>>,
    localsite       |-> s_true,
    files           |-> default_files,
    environ         |-> env,
    database        |-> database_of(t, <<plain_resource(TRUE, <<>>, ps)>>)] :
     t \in {t_Nagios_host, t_Nagios_Host},
     ps \in {x \in SeqsUpTo(ParameterUniverse, MaxParams) : distinct_keys(x)},
     env \in {x \in SeqsUpTo(EnvironmentUniverse, MaxEnv) : distinct_names(x)}}

\* templates: several types on the command line, some without a template
TemplateScenarios ==
  {[resource_types  |-> ts,
    extra_templates |-> extra,
    localsite       |-> s_true,
    files           |-> fs,
    environ         |-> <<>>,
    database        |-> [u \in ResourceTypes |-> <<LParent>>]] :
     ts \in SeqsUpTo({t_Nagios_host, t_Nagios_service}, MaxTypes) \ {<<>>},
     extra \in {<<>>, <<t_generic>>},
     fs \in SUBSET {t_Nagios_host \o s_jinja2, t_generic}}

\* dependencies: a batch of service resources
LinkScenarios ==
  {[resource_types  |-> <<t_Nagios_service>>,
    extra_templates |-> <<>>,
    localsite       |-> ls,
    files           |-> default_files,
    environ         |-> <<>>,
    database        |-> database_of(t_Nagios_service, batch)] :
     ls \in {s_true, s_false},
     batch \in SeqsUpTo(LinkUniverse, MaxResources)}

Scenarios ==
  VisibilityScenarios \cup ShapingScenarios \cup TemplateScenarios \cup LinkScenarios

(* ------------------------------------------------------------------ *)
(* State                                                               *)
(* ------------------------------------------------------------------ *)

VARIABLES
  resource_types,        \* args.resource_types
  extra_templates,       \* args.templates
  localsite,             \* args.localsite
  files,                 \* the template names the loader can load
  environ,               \* os.environ, in iteration order
  database,              \* database.resources, by resource type
  pc,                    \* position of the program
  ti,                    \* number of resource types main has printed
  resource_type,         \* render_resources: argument
  templates,             \* render_resources: argument template_names
  r,                     \* render_resources: r
  resources,             \* render_resources: resources
  ri,                    \* number of records of r the selector loop has visited
  template,              \* render_resources: template
  icinga_config,         \* render_resources: icinga_config, as a list of fragments
  object_name,           \* render_resources: object_name
  named_object,          \* render_resources: named_object
  service_dependencies,  \* render_resources: service_dependencies
  resource,              \* render_resources: the selector loop's variable
  di,                    \* position of "for item in service_dependencies"
  dj,                    \* position of "for parent in resources"
  ret,                   \* the value render_resources returned
  stdout,                \* what main has printed, one entry per print
  log                    \* LOG.error records

inputs == <<resource_types, extra_templates, localsite, files, environ, database>>

locals == <<resource_type, templates, r, resources, ri, template, icinga_config,
            object_name, named_object, service_dependencies, resource, di, dj>>

vars == <<inputs, pc, ti, locals, ret, stdout, log>>

\* the value of a local that is not bound yet
Unbound == <<>>

\* Python's None and a returned string
None == [t |-> "None"]

Text(frags) == [t |-> "str", frags |-> frags]

\* what print(value) writes: the text itself, or the word None
printed(value) ==
  IF value.t = "None" THEN [text |-> <<>>, literal |-> s_None]
                      ELSE [text |-> value.frags, literal |-> <<>>]

\* templates of main: `<type>.jinja2`, then the names given with --templates
main_templates(t, extra) == <<t \o s_jinja2>> \o extra

\* ENVIRONMENT.select_template: one of the names can be loaded
template_exists(names, fs) == \E i \in 1..Len(names) : names[i] \in fs

\* ENVIRONMENT.select_template: the first name that can be loaded
select_template(names, fs) ==
  names[CHOOSE i \in 1..Len(names) :
          names[i] \in fs /\ \A j \in 1..(i - 1) : names[j] \notin fs]

Init ==
  /\ \E s \in Scenarios :
       /\ resource_types = s.resource_types
       /\ extra_templates = s.extra_templates
       /\ localsite = s.localsite
       /\ files = s.files
       /\ environ = s.environ
       /\ database = s.database
  /\ pc = "main"
  /\ ti = 0
  /\ resource_type = Unbound
  /\ templates = Unbound
  /\ r = Unbound
  /\ resources = Unbound
  /\ ri = 0
  /\ template = Unbound
  /\ icinga_config = Unbound
  /\ object_name = Unbound
  /\ named_object = FALSE
  /\ service_dependencies = Unbound
  /\ resource = Unbound
  /\ di = 0
  /\ dj = 0
  /\ ret = None
  /\ stdout = <<>>
  /\ log = <<>>

(* ------------------------------------------------------------------ *)
(* main                                                                *)
(* ------------------------------------------------------------------ *)

\* for resource_type in args.resource_types: call render_resources; the
\* callee's first statements fetch r and create resources
MainCall ==
  /\ pc = "main"
  /\ ti < Len(resource_types)
  /\ resource_type' = resource_types[ti + 1]
  /\ templates' = main_templates(resource_types[ti + 1], extra_templates)
  /\ r' = database[resource_types[ti + 1]]
  /\ resources' = <<>>
  /\ ri' = 0
  /\ template' = Unbound
  /\ icinga_config' = Unbound
  /\ object_name' = Unbound
  /\ named_object' = FALSE
  /\ service_dependencies' = Unbound
  /\ resource' = Unbound
  /\ di' = 0
  /\ dj' = 0
  /\ pc' = "select_template"
  /\ UNCHANGED <<inputs, ti, ret, stdout, log>>

\* the loop of main is over: sys.exit(0)
MainExit ==
  /\ pc = "main"
  /\ ti = Len(resource_types)
  /\ pc' = "done"
  /\ UNCHANGED <<inputs, ti, locals, ret, stdout, log>>

\* print(render_resources(...))
MainPrint ==
  /\ pc = "print"
  /\ stdout' = Append(stdout, printed(ret))
  /\ ti' = ti + 1
  /\ pc' = "main"
  /\ UNCHANGED <<inputs, locals, ret, log>>

(* ------------------------------------------------------------------ *)
(* render_resources                                                    *)
(* ------------------------------------------------------------------ *)

\* except jinja2.TemplatesNotFound: LOG.error; the function falls off its end
TemplateNotFound ==
  /\ pc = "select_template"
  /\ ~template_exists(templates, files)
  /\ log' = Append(log, resource_type)
  /\ ret' = None
  /\ pc' = "print"
  /\ UNCHANGED <<inputs, ti, locals, stdout>>

\* else: the initialisations before the selector loop
TemplateFound ==
  /\ pc = "select_template"
  /\ template_exists(templates, files)
  /\ template' = select_template(templates, files)
  /\ icinga_config' = <<>>
  /\ object_name' = str_from(resource_type, 7)
  /\ named_object' = tuple_contains(NAMED_OBJECTS, str_from(resource_type, 7))
  /\ service_dependencies' = <<>>
  /\ pc' = "selector"
  /\ UNCHANGED <<inputs, ti, resource_type, templates, r, resources, ri, resource,
                 di, dj, ret, stdout, log>>

\* one iteration of "for resource in r"
SelectorStep ==
  /\ pc = "selector"
  /\ ri < Len(r)
  /\ resource' = r[ri + 1]
  /\ resources' = Append(resources, r[ri + 1])
  /\ icinga_config' =
       IF is_resource_visible(r[ri + 1], localsite)
         THEN Append(icinga_config,
                     render(template,
                            resource_dto(object_name, named_object, r[ri + 1], environ)))
         ELSE icinga_config
  /\ service_dependencies' =
       collect_tags(service_dependencies, r[ri + 1], r[ri + 1].tags)
  /\ ri' = ri + 1
  /\ UNCHANGED <<inputs, pc, ti, resource_type, templates, r, template, object_name,
                 named_object, di, dj, ret, stdout, log>>

\* the selector loop is over: if len(service_dependencies) > 0
SelectorEnd ==
  /\ pc = "selector"
  /\ ri = Len(r)
  /\ IF Len(service_dependencies) > 0
       THEN pc' = "linker" /\ di' = 1 /\ dj' = 1
       ELSE pc' = "return" /\ UNCHANGED <<di, dj>>
  /\ UNCHANGED <<inputs, ti, resource_type, templates, r, resources, ri, template,
                 icinga_config, object_name, named_object, service_dependencies,
                 resource, ret, stdout, log>>

\* the position after (di, dj) in the two nested loops
linker_advance ==
  IF dj < Len(resources) THEN pc' = "linker" /\ di' = di /\ dj' = dj + 1
  ELSE IF di < Len(service_dependencies) THEN pc' = "linker" /\ di' = di + 1 /\ dj' = 1
  ELSE pc' = "return" /\ UNCHANGED <<di, dj>>

\* one iteration of "for parent in resources" under one item
LinkerStep ==
  /\ pc = "linker"
  /\ LET got == link_parent(template, resource, localsite,
                            service_dependencies[di], resources[dj])
     IN  /\ ~got.raised
         /\ icinga_config' = icinga_config \o got.out
  /\ linker_advance
  /\ UNCHANGED <<inputs, ti, resource_type, templates, r, resources, ri, template,
                 object_name, named_object, service_dependencies, resource,
                 ret, stdout, log>>

\* the iteration raises (KeyError, AttributeError): nothing catches it, the
\* process ends with a traceback and prints nothing more
LinkerRaise ==
  /\ pc = "linker"
  /\ LET got == link_parent(template, resource, localsite,
                            service_dependencies[di], resources[dj])
     IN  /\ got.raised
         /\ icinga_config' = icinga_config \o got.out
  /\ pc' = "raised"
  /\ UNCHANGED <<inputs, ti, resource_type, templates, r, resources, ri, template,
                 object_name, named_object, service_dependencies, resource, di, dj,
                 ret, stdout, log>>

\* return icinga_config
Return ==
  /\ pc = "return"
  /\ ret' = Text(icinga_config)
  /\ pc' = "print"
  /\ UNCHANGED <<inputs, ti, locals, stdout, log>>

Next ==
  \/ MainCall
  \/ MainExit
  \/ MainPrint
  \/ TemplateNotFound
  \/ TemplateFound
  \/ SelectorStep
  \/ SelectorEnd
  \/ LinkerStep
  \/ LinkerRaise
  \/ Return

Spec == Init /\ [][Next]_vars

(* ------------------------------------------------------------------ *)
(* Properties                                                          *)
(* ------------------------------------------------------------------ *)

IsPrefix(s, t) == Len(s) <= Len(t) /\ SubSeq(t, 1, Len(s)) = s

RECURSIVE Flatten(_)
Flatten(ss) == IF ss = <<>> THEN <<>> ELSE ss[1] \o Flatten(Tail(ss))

\* the visibility rule as the specification tabulates it
VisibleTable(res, ls) ==
  LET only == \E i \in 1..Len(res.tags) : res.tags[i] = s_only_cross_site
      no   == \E i \in 1..Len(res.tags) : res.tags[i] = s_no_cross_site
  IN  CASE ~res.exported -> FALSE
        [] res.exported /\ ~only /\ ~no -> TRUE
        [] res.exported /\ only /\ ~no -> ls = s_false
        [] res.exported /\ ~only /\ no -> ls = s_true
        [] OTHER -> FALSE

\* the fetched resources the table makes visible, in fetch order
ShownResources ==
  LET shown(x) == VisibleTable(x, localsite) IN SelectSeq(resources, shown)

\* the dtos rendered for resources, and those rendered for dependencies
ResourceDtos ==
  LET of_resource(f) == "name" \in DOMAIN f.dto
  IN  [i \in 1..Len(SelectSeq(icinga_config, of_resource)) |->
         SelectSeq(icinga_config, of_resource)[i].dto]

DependencyDtos ==
  LET of_dependency(f) == "name" \notin DOMAIN f.dto
  IN  [i \in 1..Len(SelectSeq(icinga_config, of_dependency)) |->
         SelectSeq(icinga_config, of_dependency)[i].dto]

\* render_resources is past template selection
Rendering == pc \in {"selector", "linker", "return", "raised"}

\* C1: a dto is rendered for a fetched resource exactly when the truth table
\* of the visibility rule makes the resource visible under the given
\* --localsite string: not exported -> no; neither marker -> yes; only
\* only-cross-site -> localsite = "false"; only no-cross-site ->
\* localsite = "true"; anything else (both markers) -> no.
C1_VisibilityTable ==
  Rendering =>
    /\ Len(ResourceDtos) = Len(ShownResources)
    /\ \A i \in 1..Len(ResourceDtos) : ResourceDtos[i].name = ShownResources[i].name

\* an exported resource carrying only no-cross-site was visited under a
\* --localsite that is neither "true" nor "false", and nothing was rendered
C1_Witness ==
  /\ pc = "return"
  /\ Len(resources) = 1
  /\ resources[1].exported
  /\ resources[1].tags = <<s_no_cross_site>>
  /\ localsite = <<"T","r","u","e">>
  /\ icinga_config = <<>>

\* the parameter value the shaping rule promises for a declared parameter
ShapedValue(key, value) ==
  IF value.t = "list"
       /\ (key \notin {METAPARAMS[i] : i \in 1..Len(METAPARAMS)} \/ key = <<"a","l","i","a","s">>)
    THEN [t |-> "str", s |-> str_join(<<",">>, value.l)]
    ELSE value

\* the key and value an environment variable contributes
EnvKey(name) == str_lower(str_join(<<"_">>, Tail(str_split(name, "_"))))

EnvValue(value) == [t |-> "str", s |-> str_lower(value)]

\* C5: the dto of every visible resource starts with one single-key entry per
\* declared parameter, in the record's order; a list value is joined with ','
\* unless the key is a reserved metaparameter other than 'alias', in which
\* case (and for scalars) the value is emitted unchanged; every later entry
\* is derived from an environment variable.
C5_DeclaredParametersFirst ==
  Rendering =>
    \A i \in 1..Len(ResourceDtos) :
      LET declared == ShownResources[i].parameters
          emitted  == ResourceDtos[i].parameters
      IN  /\ Len(emitted) >= Len(declared)
          /\ \A k \in 1..Len(declared) :
               emitted[k] = [key   |-> declared[k].key,
                             value |-> ShapedValue(declared[k].key, declared[k].value)]
          /\ \A k \in (Len(declared) + 1)..Len(emitted) :
               \E e \in 1..Len(environ) :
                 emitted[k] = [key   |-> EnvKey(environ[e].name),
                               value |-> EnvValue(environ[e].value)]

\* a dto with require kept as a list, members joined to "x,y", followed by
\* the entry of HOST_LOCATION
C5_Witness ==
  /\ pc = "return"
  /\ Len(ResourceDtos) = 1
  /\ Len(ResourceDtos[1].parameters) = 3
  /\ ResourceDtos[1].parameters[1] =
       [key |-> <<"r","e","q","u","i","r","e">>, value |-> [t |-> "list", l |-> <<<<"a">>, <<"b">>>>]]
  /\ ResourceDtos[1].parameters[2] =
       [key |-> <<"m","e","m","b","e","r","s">>, value |-> [t |-> "str", s |-> <<"x", ",", "y">>]]
  /\ ResourceDtos[1].parameters[3] =
       [key |-> <<"l","o","c","a","t","i","o","n">>, value |-> [t |-> "str", s |-> <<"r","a","c","k","7">>]]

\* C3: in the dto of every visible resource, no entry derived from the
\* environment has the key of a parameter declared on that resource.
C3_EnvironmentNeverDuplicatesDeclared ==
  Rendering =>
    \A i \in 1..Len(ResourceDtos) :
      LET declared == ShownResources[i].parameters
          emitted  == ResourceDtos[i].parameters
      IN  \A k \in (Len(declared) + 1)..Len(emitted) :
            \A d \in 1..Len(declared) : emitted[k].key # declared[d].key

\* the variables of the environment the rule selects for object name n and
\* the declared parameters: first segment equal to n whatever the letter
\* case of either, full name not covered by a declared parameter
SelectedEnvironment(n, declared) ==
  LET covered == {str_upper(n \o <<"_">> \o declared[d].key) : d \in 1..Len(declared)}
      selected(e) == /\ str_lower(str_split(e.name, "_")[1]) = str_lower(n)
                     /\ e.name \notin covered
  IN  SelectSeq(environ, selected)

\* C4: the entries following the declared ones in the dto of a visible
\* resource are exactly, one per variable and in the environment's order,
\* the entries of the environment variables whose first '_'-separated
\* segment equals the object name case-insensitively (whatever the letter
\* case of the object name) and whose name no declared parameter covers:
\* key = remaining segments joined by '_' and lower-cased, value = the
\* variable's value lower-cased.  Other variables contribute nothing.
C4_EnvironmentEntries ==
  Rendering =>
    \A i \in 1..Len(ResourceDtos) :
      LET declared == ShownResources[i].parameters
          emitted  == ResourceDtos[i].parameters
          chosen   == SelectedEnvironment(str_from(resource_type, 7), declared)
      IN  SubSeq(emitted, Len(declared) + 1, Len(emitted))
            = [e \in 1..Len(chosen) |->
                 [key   |-> EnvKey(chosen[e].name),
                  value |-> EnvValue(chosen[e].value)]]

\* C6: no entry of a dto built for a visible resource has a key of the
\* reserved metaparameter set, except the allow-listed key alias.
C6_MetaparametersExcluded ==
  Rendering =>
    \A i \in 1..Len(ResourceDtos) :
      \A k \in 1..Len(ResourceDtos[i].parameters) :
        LET key == ResourceDtos[i].parameters[k].key
        IN  key \in {METAPARAMS[m] : m \in 1..Len(METAPARAMS)} => key = <<"a","l","i","a","s">>

\* a well-formed parent marker: "parent:" at the start of the tag, followed
\* by a non-empty description holding no further colon
WellFormedMarker(tag) ==
  /\ Len(tag) > Len(s_parent_colon)
  /\ SubSeq(tag, 1, Len(s_parent_colon)) = s_parent_colon
  /\ \A c \in (Len(s_parent_colon) + 1)..Len(tag) : tag[c] # ":"

MarkerDescription(tag) == SubSeq(tag, Len(s_parent_colon) + 1, Len(tag))

\* C8: a fetched resource is in the dependency map under key d if and only
\* if one of its tags is parent:<d> with a non-empty, colon-free d; every
\* other tag adds no entry.
C8_MapHoldsWellFormedMarkersOnly ==
  Rendering =>
    /\ \A i \in 1..Len(resources) : \A t \in 1..Len(resources[i].tags) :
         WellFormedMarker(resources[i].tags[t]) =>
           \E e \in 1..Len(service_dependencies) :
             /\ service_dependencies[e].key = MarkerDescription(resources[i].tags[t])
             /\ \E c \in 1..Len(service_dependencies[e].children) :
                  service_dependencies[e].children[c] = resources[i]
    /\ \A e \in 1..Len(service_dependencies) :
         \A c \in 1..Len(service_dependencies[e].children) :
           \E t \in 1..Len(service_dependencies[e].children[c].tags) :
             /\ WellFormedMarker(service_dependencies[e].children[c].tags[t])
             /\ MarkerDescription(service_dependencies[e].children[c].tags[t])
                  = service_dependencies[e].key

\* mapping[key], or a placeholder when the key is absent
Lookup(items, k) ==
  IF \E i \in 1..Len(items) : items[i].key = k
    THEN items[CHOOSE i \in 1..Len(items) : items[i].key = k].value
    ELSE [t |-> "absent"]

\* the servicedependency dto of one parent and one child
LinkDto(parent, child) ==
  [object_name |-> s_servicedependency,
   parameters  |->
     <<[host_name                     |-> Lookup(parent.parameters, s_host_name),
        service_description           |-> Lookup(parent.parameters, s_service_description),
        dependent_host_name           |-> Lookup(child.parameters, s_host_name),
        dependent_service_description |-> Lookup(child.parameters, s_service_description)]>>]

\* the dtos of every (entry, matching parent, child), in map order, fetch
\* order and collection order
LinksOf(matches(_, _)) ==
  Flatten([e \in 1..Len(service_dependencies) |->
    Flatten([p \in 1..Len(resources) |->
      IF matches(resources[p], service_dependencies[e].key)
        THEN [c \in 1..Len(service_dependencies[e].children) |->
                LinkDto(resources[p], service_dependencies[e].children[c])]
        ELSE <<>>])])

\* the parent's service_description contains the description of the map
\* key, letter case ignored on both sides
MatchesAnyCase(parent, key) ==
  LET value == Lookup(parent.parameters, s_service_description)
  IN  /\ value.t = "str"
      /\ str_contains(str_lower(value.s), str_lower(str_replace(key, "_", " ")))

\* C7: when render_resources returns, the servicedependency dtos are, for
\* every map entry and every fetched resource whose service_description
\* contains the entry's description case-insensitively, one dto per
\* collected child, in collection order, with the parent's and the child's
\* host_name and service_description; nothing else, nothing de-duplicated.
C7_LinksForEveryMatchingParent ==
  pc = "return" => DependencyDtos = LinksOf(MatchesAnyCase)

\* C9: render_resources never fails once the fetch succeeded and a template
\* resolved.
C9_NoFailureAfterTemplate == pc # "raised"

\* the parent's lower-cased service_description contains the description
\* of the map key as the tag spells it
MatchesAsTagged(parent, key) ==
  LET value == Lookup(parent.parameters, s_service_description)
  IN  /\ value.t = "str"
      /\ str_contains(str_lower(value.s), str_replace(key, "_", " "))

\* the last resource the selector loop visited is visible
LastVisible ==
  /\ Len(resources) > 0
  /\ VisibleTable(resources[Len(resources)], localsite)

\* C10: the visibility gate of the dependency pass is the visibility of the
\* last resource the selector loop visited, for the whole pass: when that
\* resource is not visible no servicedependency dto is emitted; when it is
\* visible the dtos are those of every resource with a matching
\* service_description, whether that parent is itself visible or not (the
\* pass emits them in order: a prefix while it runs, all of them on return).
C10_GateIsLastVisitedResource ==
  pc \in {"linker", "return", "raised"} =>
    IF LastVisible
      THEN /\ IsPrefix(DependencyDtos, LinksOf(MatchesAsTagged))
           /\ pc = "return" => DependencyDtos = LinksOf(MatchesAsTagged)
      ELSE DependencyDtos = <<>>

\* the pass returned dtos for a matching parent that is not exported, the
\* last visited resource being visible
C10_Witness ==
  /\ pc = "return"
  /\ LastVisible
  /\ Len(DependencyDtos) > 0
  /\ \E p \in 1..Len(resources) :
       /\ ~resources[p].exported
       /\ \E e \in 1..Len(service_dependencies) :
            MatchesAsTagged(resources[p], service_dependencies[e].key)
       /\ \E d \in 1..Len(DependencyDtos) :
            DependencyDtos[d].parameters[1].host_name
              = Lookup(resources[p].parameters, s_host_name)

\* C2: when main is done, every requested type for which no candidate
\* template resolves has exactly one error logged and nothing printed for it.
C2_NoTemplateNoText ==
  pc = "done" =>
    \A i \in 1..Len(resource_types) :
      ~(\E n \in 1..Len(main_templates(resource_types[i], extra_templates)) :
          main_templates(resource_types[i], extra_templates)[n] \in files)
        => /\ stdout[i].text = <<>>
           /\ stdout[i].literal = <<>>

====
